---- MODULE Spec2Model ----
(***************************************************************************)
(* Order-to-availability reconciliation of main_filter.py and the email    *)
(* report of mail.py.  Tables (pandas DataFrames, CSV files) are sequences *)
(* of records; one action per function called by the __main__ block of     *)
(* main_filter.py, per method called by process_and_send_alert, per task   *)
(* step of the DAG of dag/mail_dag.py and per row of the loop of           *)
(* process_orders_and_fetch_data.                                          *)
(***************************************************************************)
EXTENDS Integers, Sequences, FiniteSets, TLC

VARIABLES
    orders,                    \* all_resorts_simple_orders.csv
    blackout,                  \* latest_blackout_scrapping_data.csv
    pc,                        \* position in the __main__ block of main_filter.py
    results_df,                \* first value returned by map_orders_to_blackout_data
    order_summary,             \* second value returned by map_orders_to_blackout_data
    skip_log,                  \* OrderIds of the "Skipping order" lines printed
    summary,                   \* the summary lines printed by map_orders_to_blackout_data
    mapped_file,               \* data/mapped_orders_blackout_data.csv
    minimum_availability_df,   \* value returned by calculate_minimum_availability
    min_availability_file,     \* data/minimum_availability_per_order.csv
    overall_minimum_df,        \* value returned by calculate_overall_minimum_availability
    overall_min_file,          \* data/overall_minimum_availability.csv
    run,                       \* number of the current run of main_filter.py
    detailed_orders,           \* csvs/all_resorts_detailed_orders.csv
    mail_pc,                   \* position in process_and_send_alert of mail.py
    filtered_data,             \* value returned by process_data_file
    email_content,             \* value returned by create_email_content
    send_status,               \* outcome of self.mailjet.send.create, if it was called
    alert_result,              \* value returned by process_and_send_alert
    run_main_py,               \* state of task run_main_py in the DAG run
    main_try,                  \* try number of task run_main_py
    run_mail_py,               \* state of task run_mail_py in the DAG run
    mail_try,                  \* try number of task run_mail_py
    csv_export,                \* csv/all_resorts_detailed_orders.csv
    export_written,            \* main.py wrote csv_export in this DAG run
    unique_orders,             \* the rows process_orders_and_fetch_data iterates over
    fetch_idx,                 \* number of rows the loop has handled
    fetch_results,             \* results
    processed_count,
    success_count,
    error_count

mail_vars == <<detailed_orders, mail_pc, filtered_data, email_content,
               send_status, alert_result>>

filter_vars == <<orders, blackout, pc, results_df, order_summary, skip_log, summary,
                 mapped_file, minimum_availability_df, min_availability_file,
                 overall_minimum_df, overall_min_file, run>>

dag_vars == <<run_main_py, main_try, run_mail_py, mail_try, csv_export,
              export_written>>

fetch_vars == <<unique_orders, fetch_idx, fetch_results, processed_count,
                success_count, error_count>>

vars == <<orders, blackout, pc, results_df, order_summary, skip_log, summary,
          mapped_file, minimum_availability_df, min_availability_file,
          overall_minimum_df, overall_min_file, run,
          detailed_orders, mail_pc, filtered_data, email_content,
          send_status, alert_result,
          run_main_py, main_try, run_mail_py, mail_try, csv_export, export_written,
          unique_orders, fetch_idx, fetch_results, processed_count,
          success_count, error_count>>

(***************************************************************************)
(* Bounds of the model.                                                    *)
(***************************************************************************)
MaxDay == 3        \* calendar days 1..MaxDay of one month
MaxCount == 2      \* AvailableCount of one availability record is in 0..MaxCount

Days == 1..MaxDay
Counts == 0..MaxCount
ResortIds == {1, 2}
PropertyTypeIds == {1, 2}

(***************************************************************************)
(* Values.                                                                 *)
(***************************************************************************)
PyNone == "<None>"     \* Python None (bed_type of an order with no flag set)
NaN == "<NaN>"         \* pandas missing value, what read_csv makes of an empty field
Absent == [exists |-> FALSE, rows |-> <<>>]    \* a file that does not exist
File(rows) == [exists |-> TRUE, rows |-> rows]  \* a CSV file holding these rows
EmptyField == ""       \* what to_csv writes for None

\* What a function of mail.py returns: None, or a DataFrame / a pair of texts.
NoFrame == [is_none |-> TRUE, rows |-> <<>>]
Frame(rows) == [is_none |-> FALSE, rows |-> rows]
NoContent == [is_none |-> TRUE, html |-> <<>>, text |-> <<>>]

\* self.mailjet.send.create has not been called.
NotCalled == "not called"

\* process_and_send_alert has not returned.
NoResult == [returned |-> FALSE, success |-> FALSE, message |-> ""]

\* A date field that pd.to_datetime cannot parse (a text such as 'not-a-date'),
\* written as a number that is no day of the calendar.
Malformed == 0

IsNull(v) == v \in {PyNone, NaN}

\* Resorts.Name of a ResortId (main.py selects both columns from one Resorts row).
ResortName(rid) == IF rid = 1 THEN "Alpha" ELSE "Beta"

\* Position of a string among the strings of its column, in Python's str order.
StrRank(s) ==
    CASE s = "Alpha" -> 1
      [] s = "Beta" -> 2
      [] s = "Bed1" -> 1
      [] s = "Bed2" -> 2
      [] s = "Bed3" -> 3
      [] s = "Bed4" -> 4
      [] s = "Studio" -> 5
      [] OTHER -> 6      \* None / NaN: na_position='last'

\* strftime('%Y-%m-%d') within one month: the two digits of the day; strings of
\* this format compare digit by digit.
Strftime(d) == <<d \div 10, d % 10>>

(***************************************************************************)
(* Generic table helpers (what pandas does for the calls the code makes).  *)
(***************************************************************************)
\* Lexicographic order on integer tuples of equal length.
LexLess(a, b) ==
    \E i \in 1..Len(a) : a[i] < b[i] /\ \A j \in 1..(i - 1) : a[j] = b[j]

\* DataFrame.sort_values(...).reset_index(drop=True): a stable sort of the rows
\* of seq by their sort keys (keys[i] is the key of seq[i]).
SortBy(seq, keys) ==
    LET n == Len(seq)
        Before(j, i) == \/ LexLess(keys[j], keys[i])
                        \/ (keys[j] = keys[i] /\ j < i)
        Rank(i) == Cardinality({j \in 1..n : Before(j, i)}) + 1
    IN [k \in 1..n |-> seq[CHOOSE i \in 1..n : Rank(i) = k]]

\* The distinct group keys of a groupby, in ascending order (sort=True); ord[x]
\* is the position of key x as an integer tuple.
SortedKeys(S, ord) ==
    [k \in 1..Cardinality(S) |->
        CHOOSE x \in S : Cardinality({y \in S : LexLess(ord[y], ord[x])}) = k - 1]

RECURSIVE SumCounts(_)
SumCounts(rows) ==
    IF rows = <<>> THEN 0 ELSE Head(rows).AvailableCount + SumCounts(Tail(rows))

CountSet(rows) == {rows[i].AvailableCount : i \in DOMAIN rows}
SetMin(S) == CHOOSE x \in S : \A y \in S : x <= y
SetMax(S) == CHOOSE x \in S : \A y \in S : x >= y

\* The aggregate taken from the wrong end of the group's counts.
C2Mut_AggMin(rows) == SetMax(CountSet(rows))

\* agg 'min' / 'max' of AvailableCount over the rows of one group.
AggMin(rows) == SetMin(CountSet(rows))
AggMax(rows) == SetMax(CountSet(rows))

(***************************************************************************)
(* map_orders_to_blackout_data: the per-order loop body.                   *)
(***************************************************************************)
bed_columns == <<"Studio", "Bed1", "Bed2", "Bed3", "Bed4">>

\* for col in bed_columns: if order[col] == True ...: bed_type = col; break
RECURSIVE FirstTrue(_, _)
FirstTrue(order, i) ==
    IF i > Len(bed_columns) THEN PyNone
    ELSE IF order[bed_columns[i]] = TRUE THEN bed_columns[i]
    ELSE FirstTrue(order, i + 1)

\* The loop without its break: the last true flag wins.
RECURSIVE C8Mut_LastTrue(_, _)
C8Mut_LastTrue(order, i) ==
    IF i < 1 THEN PyNone
    ELSE IF order[bed_columns[i]] = TRUE THEN bed_columns[i]
    ELSE C8Mut_LastTrue(order, i - 1)

C8Mut_bed_type(order) == C8Mut_LastTrue(order, Len(bed_columns))

bed_type(order) == FirstTrue(order, 1)

\* mail.py: get_room_type(row), an if/elif chain over the same columns.
get_room_type(row) ==
    IF row.Studio THEN "Studio"
    ELSE IF row.Bed1 THEN "1 Bedroom"
    ELSE IF row.Bed2 THEN "2 Bedroom"
    ELSE IF row.Bed3 THEN "3 Bedroom"
    ELSE IF row.Bed4 THEN "4 Bedroom"
    ELSE "Unknown"

\* orders_df['Arrival'] = pd.to_datetime(orders_df['Arrival']), and the same for
\* Departure: the conversion of the whole column raises when one field cannot
\* be parsed.
to_datetime_raises(os) ==
    \E i \in DOMAIN os : os[i].Arrival = Malformed \/ os[i].Departure = Malformed

start_date(order) == order.Arrival
\* The end date without the day subtracted.
C9Mut_end_date(order) == order.Departure

end_date(order) == order.Departure - 1

\* date_range with the end date's following day included.
C1Mut_date_range(start, end) == [i \in 1..(end - start + 2) |-> start + i - 1]

\* pd.date_range(start, end, freq='D'): every day from start through end; empty
\* when end is before start.
date_range(start, end) == [i \in 1..(end - start + 1) |-> start + i - 1]

\* The filter without its date condition.
C6Mut_KeyMatch(b, order, single_date) ==
    /\ b.ResortId = order.ResortId
    /\ b.PropertyTypeId = order.PropertyTypeId

\* The three-column filter of blackout_df.
KeyMatch(b, order, single_date) ==
    /\ b.ResortId = order.ResortId
    /\ b.PropertyTypeId = order.PropertyTypeId
    /\ b.Date = single_date

\* A filter that matches nothing when no bed type was found.
C7Mut_BedFilter(matching, bt) ==
    IF bt = PyNone THEN <<>> ELSE SelectSeq(matching, LAMBDA b : b[bt] = TRUE)

\* The bed type filter, applied only when a bed type was found.
BedFilter(matching, bt) ==
    IF bt # PyNone /\ matching # <<>>
    THEN SelectSeq(matching, LAMBDA b : b[bt] = TRUE)
    ELSE matching

matching_blackout(order, single_date, bo) ==
    BedFilter(SelectSeq(bo, LAMBDA b : KeyMatch(b, order, single_date)),
              bed_type(order))

\* A lookup that marks a night without a record by -1 instead of 0.
C12Mut_available_count(matching) ==
    IF matching # <<>> THEN SumCounts(matching) ELSE -1

available_count(matching) ==
    IF matching # <<>> THEN SumCounts(matching) ELSE 0

ResultRow(order, single_date, bo) ==
    [OrderId |-> order.OrderId,
     ResortId |-> order.ResortId,
     Resort |-> order.Resort,
     PropertyTypeId |-> order.PropertyTypeId,
     BedType |-> bed_type(order),
     Date |-> Strftime(single_date),
     Arrival |-> Strftime(order.Arrival),
     Departure |-> Strftime(order.Departure),
     AvailableCount |-> available_count(matching_blackout(order, single_date, bo))]

\* if end_date >= start_date: one result per date of the range; else: skip.
Processed(order) == end_date(order) >= start_date(order)

OrderRows(order, bo) ==
    IF Processed(order)
    THEN LET dr == date_range(start_date(order), end_date(order))
         IN [i \in DOMAIN dr |-> ResultRow(order, dr[i], bo)]
    ELSE <<>>

\* The results list after the loop over orders_df.iterrows().
RECURSIVE results(_, _)
results(os, bo) ==
    IF os = <<>> THEN <<>> ELSE OrderRows(Head(os), bo) \o results(Tail(os), bo)

\* The "Skipping order ..." lines printed by the else branch, as OrderIds.
RECURSIVE SkipLines(_)
SkipLines(os) ==
    IF os = <<>> THEN <<>>
    ELSE (IF Processed(Head(os)) THEN <<>> ELSE <<Head(os).OrderId>>)
         \o SkipLines(Tail(os))

(***************************************************************************)
(* map_orders_to_blackout_data: the tables built after the loop.           *)
(***************************************************************************)
\* results_df.sort_values(['Resort', 'BedType', 'Date', 'OrderId'])
MappedSortKey(r) ==
    <<StrRank(r.Resort), StrRank(r.BedType)>> \o r.Date \o <<r.OrderId>>

SortResults(res) == SortBy(res, [i \in DOMAIN res |-> MappedSortKey(res[i])])

\* results_df.to_csv(mapped_file, index=False): None is written as an empty field.
to_csv(df) ==
    File([i \in DOMAIN df |->
            [df[i] EXCEPT !.BedType = IF @ = PyNone THEN EmptyField ELSE @]])

\* pd.read_csv(mapped_file): an empty field is read as NaN.
read_csv(file) ==
    [i \in DOMAIN file.rows |->
        [file.rows[i] EXCEPT !.BedType = IF @ = EmptyField THEN NaN ELSE @]]

\* Rows of a table whose group key has no missing value (groupby drops the others).
Groupable(df) == SelectSeq(df, LAMBDA r : ~IsNull(r.BedType))

RowSet(df) == {df[i] : i \in DOMAIN df}

\* results_df.groupby(['OrderId', 'Resort', 'BedType']).agg(...), then
\* sort_values(['Resort', 'BedType', 'OrderId']).
SummaryKey(r) == [OrderId |-> r.OrderId, Resort |-> r.Resort, BedType |-> r.BedType]
SummaryGroupOrder(k) == <<k.OrderId, StrRank(k.Resort), StrRank(k.BedType)>>
SummarySortKey(r) == <<StrRank(r.Resort), StrRank(r.BedType), r.OrderId>>

OrderSummary(df) ==
    LET rows == Groupable(df)
        ks == {SummaryKey(r) : r \in RowSet(rows)}
        keys == SortedKeys(ks, [k \in ks |-> SummaryGroupOrder(k)])
        Group(k) == SelectSeq(rows, LAMBDA r : SummaryKey(r) = k)
        grouped == [i \in DOMAIN keys |->
                      [OrderId |-> keys[i].OrderId,
                       Resort |-> keys[i].Resort,
                       BedType |-> keys[i].BedType,
                       Total_Available |-> SumCounts(Group(keys[i])),
                       Min_Available |-> AggMin(Group(keys[i])),
                       Max_Available |-> AggMax(Group(keys[i])),
                       Days_Checked |-> Len(Group(keys[i]))]]
    IN SortBy(grouped, [i \in DOMAIN grouped |-> SummarySortKey(grouped[i])])

\* The pair returned by map_orders_to_blackout_data: two empty tables when no
\* result was generated, else the sorted results and the order summary.
MapReturn(os, bo) ==
    IF Len(results(os, bo)) = 0
    THEN << <<>>, <<>> >>
    ELSE << SortResults(results(os, bo)), OrderSummary(SortResults(results(os, bo))) >>

(***************************************************************************)
(* calculate_minimum_availability                                          *)
(***************************************************************************)
\* pd.read_csv on a PropertyType field: the texts that pandas takes for a
\* missing value are read as NaN, any other text as itself.
na_values == {"", "N/A", "NA", "NULL", "NaN", "n/a", "nan", "null"}
ReadPropertyType(text) == IF text \in na_values THEN NaN ELSE text

\* The cleaning without 'na' in its first list.
C15Mut_CleanPropertyType(v) ==
    IF IsNull(v) \/ v \in {"N/A", "n/a", "NA", "", " "}
                 \/ v \in {"nan", "NaN", "null", "NULL"}
    THEN "None" ELSE v

\* The three PropertyType cleaning statements.
CleanPropertyType(v) ==
    IF IsNull(v) \/ v \in {"N/A", "n/a", "NA", "na", "", " "}
                 \/ v \in {"nan", "NaN", "null", "NULL"}
    THEN "None" ELSE v

Detail(o) ==
    [OrderId |-> o.OrderId, RoomType |-> o.RoomType,
     PropertyType |-> CleanPropertyType(ReadPropertyType(o.PropertyType)),
     Vendor |-> o.Vendor]

\* orders_df[[...]].drop_duplicates(): first occurrences, in order.
order_details(os) ==
    LET d == [i \in DOMAIN os |-> Detail(os[i])]
        first == {i \in DOMAIN d : \A j \in 1..(i - 1) : d[j] # d[i]}
    IN [k \in 1..Cardinality(first) |->
          d[CHOOSE i \in first : Cardinality({j \in first : j < i}) = k - 1]]

\* mapped_df.groupby(['OrderId','Resort','BedType','Arrival','Departure'])
\*          .agg({'AvailableCount': 'min'}), reset_index()
MinKey(r) ==
    [OrderId |-> r.OrderId, Resort |-> r.Resort, BedType |-> r.BedType,
     Arrival |-> r.Arrival, Departure |-> r.Departure]
MinGroupOrder(k) ==
    <<k.OrderId, StrRank(k.Resort), StrRank(k.BedType)>> \o k.Arrival \o k.Departure

MinGrouped(mapped_df) ==
    LET rows == Groupable(mapped_df)
        ks == {MinKey(r) : r \in RowSet(rows)}
        keys == SortedKeys(ks, [k \in ks |-> MinGroupOrder(k)])
        Group(k) == SelectSeq(rows, LAMBDA r : MinKey(r) = k)
    IN [i \in DOMAIN keys |->
          [OrderId |-> keys[i].OrderId, Resort |-> keys[i].Resort,
           BedType |-> keys[i].BedType, Arrival |-> keys[i].Arrival,
           Departure |-> keys[i].Departure,
           Min_Available |-> AggMin(Group(keys[i]))]]

\* One left row merged with its matching detail rows; the selected columns only
\* (OrderId is not among them).
MergedRow(g, d) ==
    [Resort |-> g.Resort, BedType |-> g.BedType, Arrival |-> g.Arrival,
     Departure |-> g.Departure, Min_Available |-> g.Min_Available,
     RoomType |-> d.RoomType, PropertyType |-> CleanPropertyType(d.PropertyType),
     Vendor |-> d.Vendor]

NoDetail == [RoomType |-> NaN, PropertyType |-> NaN, Vendor |-> NaN]

RECURSIVE MergeLeft(_, _)
MergeLeft(grouped, details) ==
    IF grouped = <<>> THEN <<>>
    ELSE LET g == Head(grouped)
             m == SelectSeq(details, LAMBDA d : d.OrderId = g.OrderId)
         IN (IF m = <<>> THEN <<MergedRow(g, NoDetail)>>
             ELSE [i \in DOMAIN m |-> MergedRow(g, m[i])])
            \o MergeLeft(Tail(grouped), details)

\* The sort without its Min_Available column.
C17Mut_MinSortKey(r) == <<StrRank(r.Resort), StrRank(r.BedType)>>

\* min_availability.sort_values(['Resort', 'BedType', 'Min_Available'])
MinSortKey(r) == <<StrRank(r.Resort), StrRank(r.BedType), r.Min_Available>>

min_availability(mapped_df, os) ==
    LET merged == MergeLeft(MinGrouped(mapped_df), order_details(os))
    IN SortBy(merged, [i \in DOMAIN merged |-> MinSortKey(merged[i])])

\* pd.DataFrame(), the table without rows: what both functions return from
\* their exception handlers and from the early return on an empty mapped table.
EmptyDataFrame == <<>>

\* The value calculate_minimum_availability returns when the mapped file and
\* the orders table are these.
MinReturn(file, os) ==
    IF ~file.exists THEN EmptyDataFrame             \* except FileNotFoundError
    ELSE IF read_csv(file) = <<>> THEN EmptyDataFrame      \* if mapped_df.empty
    ELSE IF min_availability(read_csv(file), os) = <<>>
         THEN EmptyDataFrame       \* except Exception: division by len(...) = 0
    ELSE min_availability(read_csv(file), os)

(***************************************************************************)
(* calculate_overall_minimum_availability                                  *)
(***************************************************************************)
\* The status threshold one too high.
C5Mut_Overall_Status(x) == IF x > 1 THEN "Available" ELSE "Not Available"

Overall_Status(x) == IF x > 0 THEN "Available" ELSE "Not Available"

\* The 'High Risk' bound taken as strict.
C4Mut_Risk_Level(x) ==
    IF x = 0 THEN "Critical"
    ELSE IF x < 1 THEN "High Risk"
    ELSE IF x <= 3 THEN "Medium Risk"
    ELSE "Low Risk"

Risk_Level(x) ==
    IF x = 0 THEN "Critical"
    ELSE IF x <= 1 THEN "High Risk"
    ELSE IF x <= 3 THEN "Medium Risk"
    ELSE "Low Risk"

OverallKey(r) == [Resort |-> r.Resort, BedType |-> r.BedType]
OverallGroupOrder(k) == <<StrRank(k.Resort), StrRank(k.BedType)>>
OverallSortKey(r) ==
    <<StrRank(r.Resort), StrRank(r.BedType), r.Absolute_Min_Available>>

\* The minimum over the rows of the group's first order only.
C3Mut_AbsoluteMin(rows) ==
    AggMin(SelectSeq(rows, LAMBDA r : r.OrderId = Head(rows).OrderId))

\* agg 'min' of the group, the Absolute_Min_Available column.
AbsoluteMin(rows) == AggMin(rows)

\* The Avg_Available column (a rounded mean) is not modelled.
overall_min(mapped_df) ==
    LET rows == Groupable(mapped_df)
        ks == {OverallKey(r) : r \in RowSet(rows)}
        keys == SortedKeys(ks, [k \in ks |-> OverallGroupOrder(k)])
        Group(k) == SelectSeq(rows, LAMBDA r : OverallKey(r) = k)
        DateSet(g) == {g[i].Date : i \in DOMAIN g}
        grouped ==
          [i \in DOMAIN keys |->
             LET g == Group(keys[i])
                 m == AbsoluteMin(g)
             IN [Resort |-> keys[i].Resort,
                 BedType |-> keys[i].BedType,
                 Absolute_Min_Available |-> m,
                 Max_Available |-> AggMax(g),
                 Total_Records |-> Len(g),
                 Unique_Orders |-> Cardinality({g[j].OrderId : j \in DOMAIN g}),
                 Unique_Dates |-> Cardinality(DateSet(g)),
                 Earliest_Date |-> CHOOSE d \in DateSet(g) :
                                      \A e \in DateSet(g) : d = e \/ LexLess(d, e),
                 Latest_Date |-> CHOOSE d \in DateSet(g) :
                                      \A e \in DateSet(g) : d = e \/ LexLess(e, d),
                 Overall_Status |-> Overall_Status(m),
                 Risk_Level |-> Risk_Level(m)]]
    IN SortBy(grouped, [i \in DOMAIN grouped |-> OverallSortKey(grouped[i])])

\* The value calculate_overall_minimum_availability returns when the mapped
\* file is this.
OverallReturn(file) ==
    IF ~file.exists THEN EmptyDataFrame             \* except FileNotFoundError
    ELSE IF read_csv(file) = <<>> THEN EmptyDataFrame      \* if mapped_df.empty
    ELSE IF overall_min(read_csv(file)) = <<>>
         THEN EmptyDataFrame       \* except Exception: division by len(...) = 0
    ELSE overall_min(read_csv(file))

(***************************************************************************)
(* Input tables.                                                           *)
(***************************************************************************)
BedCols == {"Studio", "Bed1", "Bed2", "Bed3", "Bed4"}
FlagsOf(S) == [c \in BedCols |-> c \in S]
AllFlags == {FlagsOf(S) : S \in SUBSET BedCols}
TwoColFlags == {FlagsOf(S) : S \in SUBSET {"Studio", "Bed1"}}

\* One row of the orders export (the columns main_filter.py reads).
Order(id, rid, pt, flags, arr, dep) ==
    flags @@ [OrderId |-> id, ResortId |-> rid, Resort |-> ResortName(rid),
              PropertyTypeId |-> pt, Arrival |-> arr, Departure |-> dep,
              RoomType |-> "Deluxe", PropertyType |-> "Condo",
              Vendor |-> "Wyndham"]

\* One row of the availability export.
Rec(rid, pt, d, S, cnt) ==
    FlagsOf(S) @@ [ResortId |-> rid, PropertyTypeId |-> pt, Date |-> d,
                   AvailableCount |-> cnt]

\* A fixed availability table: two records for one night, nights without a
\* record of the bed type, a second resort and a second property type.
ScenarioBlackout ==
    << Rec(1, 1, 1, {"Bed1"}, 2),
       Rec(1, 1, 1, {"Studio", "Bed1"}, 2),
       Rec(1, 1, 2, {"Studio"}, 1),
       Rec(2, 1, 1, {"Studio"}, 3),
       Rec(2, 1, 2, {"Bed1", "Bed2"}, 2),
       Rec(1, 2, 2, {"Bed1"}, 2) >>

\* Orders tables of up to two rows over every resort, flag pair and date pair;
\* rows with the same OrderId are the same row (the export's LEFT JOINs repeat
\* an order, they do not change it).
OrderAttrs == ResortIds \X TwoColFlags \X Days \X Days
OrderOf(id, a) == Order(id, a[1], 1, a[2], a[3], a[4])

OrderTables ==
    {<<>>}
    \cup {<<OrderOf(1, a)>> : a \in OrderAttrs}
    \cup {<<OrderOf(1, a), OrderOf(1, a)>> : a \in OrderAttrs}
    \cup {<<OrderOf(1, a), OrderOf(2, b)>> : a \in OrderAttrs, b \in OrderAttrs}
    \cup {<<OrderOf(2, a), OrderOf(1, b)>> : a \in OrderAttrs, b \in OrderAttrs}

\* Availability tables of up to two records around a two-night stay.
LookupRecs ==
    {Rec(rid, pt, d, S, cnt) :
        rid \in ResortIds, pt \in PropertyTypeIds, d \in {1, 2},
        S \in {{"Studio"}, {"Bed1"}, {"Studio", "Bed1"}}, cnt \in Counts}

BlackoutTables ==
    {<<>>} \cup {<<a>> : a \in LookupRecs}
           \cup {<<a, b>> : a \in LookupRecs, b \in LookupRecs}

LookupOrders ==
    {<<Order(1, 1, 1, FlagsOf(S), 1, 3)>> :
        S \in {{}, {"Bed1"}, {"Studio", "Bed1"}}}

\* One order with every combination of the five flags.
FlagOrders == {<<Order(1, 1, 1, f, 1, 2)>> : f \in AllFlags}

\* Four orders, one per (resort, bed type) group of the fixed table.
FourGroupOrders ==
    << Order(1, 1, 1, FlagsOf({"Bed1"}), 1, 2),
       Order(2, 2, 1, FlagsOf({"Studio"}), 1, 2),
       Order(3, 1, 1, FlagsOf({"Studio"}), 2, 3),
       Order(4, 2, 1, FlagsOf({"Bed1"}), 1, 2) >>

\* A four-night stay from day 4 to day 8 with counts 5, 3, 0, 2 on its nights.
FourNightOrders == << Order(1, 1, 1, FlagsOf({"Bed1"}), 4, 8) >>
FourNightBlackout ==
    << Rec(1, 1, 4, {"Bed1"}, 5), Rec(1, 1, 5, {"Bed1"}, 3),
       Rec(1, 1, 6, {"Bed1"}, 0), Rec(1, 1, 7, {"Bed1"}, 2) >>

Inputs ==
    (OrderTables \X {ScenarioBlackout})
    \cup (LookupOrders \X BlackoutTables)
    \cup (FlagOrders \X {ScenarioBlackout})
    \cup {<<FourGroupOrders, ScenarioBlackout>>,
          <<FourNightOrders, FourNightBlackout>>}

(***************************************************************************)
(* Input files as they can be handed to main_filter.py, without the        *)
(* guarantees of the exports that normally write them.                     *)
(***************************************************************************)
\* Two orders whose Arrival and Departure fields are days or unparseable.
DateFields == {Malformed} \cup Days

DateOrderTables ==
    {<<Order(1, 1, 1, FlagsOf({"Bed1"}), a, b)>> :
        a \in DateFields, b \in DateFields}
    \cup {<<Order(1, 1, 1, FlagsOf({"Bed1"}), a, b),
            Order(2, 2, 1, FlagsOf({"Studio"}), c, d)>> :
        a \in DateFields, b \in DateFields, c \in DateFields, d \in DateFields}

\* Availability tables of up to two records whose AvailableCount field is any
\* integer from -1 up, around a two-night stay.
AnyCounts == (-1)..MaxCount

AnyCountRecs ==
    {Rec(1, 1, d, S, cnt) :
        d \in {1, 2}, S \in {{"Bed1"}, {"Studio"}}, cnt \in AnyCounts}

AnyCountTables ==
    {<<a>> : a \in AnyCountRecs}
    \cup {<<a, b>> : a \in AnyCountRecs, b \in AnyCountRecs}

TwoNightOrder == <<Order(1, 1, 1, FlagsOf({"Bed1"}), 1, 3)>>

\* One row of BlackoutScrappingData with its RoomTypeId and RunCount columns.
RecRun(rid, pt, rt, d, S, cnt, rc) ==
    Rec(rid, pt, d, S, cnt) @@ [RoomTypeId |-> rt, RunCount |-> rc]

\* ORDER BY ResortId, PropertyTypeId, RoomTypeId, Date
ExportOrderKey(b) == <<b.ResortId, b.PropertyTypeId, b.RoomTypeId, b.Date>>

\* get_blackout.py: what the query of get_all_availability_data can return on
\* today's rows db: the rows whose RunCount is the greatest RunCount of their
\* ResortId, in ascending order of the four ORDER BY columns.  SQL leaves the
\* order of rows equal in these columns open: every such order is a result.
get_all_availability_data(db) ==
    LET MaxRunCount(rid) ==
            SetMax({db[i].RunCount : i \in {j \in DOMAIN db : db[j].ResortId = rid}})
        FilteredData ==
            SelectSeq(db, LAMBDA b : b.RunCount = MaxRunCount(b.ResortId))
        n == Len(FilteredData)
        Ordered(p) ==
            /\ \A i \in 1..n : \A j \in 1..n : p[i] = p[j] => i = j
            /\ \A i \in 1..n : \A j \in 1..n :
                  i < j => ~LexLess(ExportOrderKey(FilteredData[p[j]]),
                                    ExportOrderKey(FilteredData[p[i]]))
    IN {[i \in 1..n |-> FilteredData[p[i]]] :
           p \in {q \in [1..n -> 1..n] : Ordered(q)}}

\* save_query_result_to_csv: latest_blackout_scrapping_data.csv after the call;
\* an empty result is not written and the file stays as it was.
save_query_result_to_csv(file, df) == IF df = <<>> THEN file ELSE df

\* Today's rows of BlackoutScrappingData: up to two records of scrape runs 1
\* and 2 and of two room types.
RunCounts == {1, 2}
RoomTypeIds == {1, 2}

RunRecs ==
    {RecRun(1, 1, rt, d, {"Bed1"}, cnt, rc) :
        rt \in RoomTypeIds, d \in {1, 2}, cnt \in Counts, rc \in RunCounts}

StoredTables ==
    {<<>>} \cup {<<a>> : a \in RunRecs}
           \cup {<<a, b>> : a \in RunRecs, b \in RunRecs}

\* Availability files that carry RunCount: rows as stored, and files as
\* exported by get_all_availability_data.
RunTables ==
    (StoredTables \ {<<>>})
    \cup UNION {get_all_availability_data(t) : t \in StoredTables \ {<<>>}}

\* Two orders whose PropertyType field is a name, empty, blank or one of the
\* texts used for "no value".
RawPropertyTypes ==
    {"Condo", "", " ", "N/A", "n/a", "NA", "na", "nan", "NaN", "null", "NULL"}

WithPropertyType(o, text) == [o EXCEPT !.PropertyType = text]

PropertyTypeOrders ==
    {<<WithPropertyType(Order(1, 1, 1, FlagsOf({"Bed1"}), 1, 3), p)>> :
        p \in RawPropertyTypes}
    \cup {<<WithPropertyType(Order(1, 1, 1, FlagsOf({"Bed1"}), 1, 3), p),
            WithPropertyType(Order(2, 2, 1, FlagsOf({"Studio"}), 1, 2), q)>> :
        p \in RawPropertyTypes, q \in RawPropertyTypes}

RawInputs ==
    (DateOrderTables \X {ScenarioBlackout})
    \cup ({TwoNightOrder} \X AnyCountTables)
    \cup ({TwoNightOrder} \X RunTables)
    \cup (PropertyTypeOrders \X {ScenarioBlackout})

(***************************************************************************)
(* The __main__ block of main_filter.py.                                   *)
(***************************************************************************)
\* Nothing of the summary has been printed.
NoSummary ==
    [printed |-> FALSE, total_records |-> 0, unique_order_ids |-> 0,
     zero_availability_dates |-> 0]

\* The counts of the summary printed after the mapped file is written: "Total
\* records processed", "Unique orders" and "Zero availability dates".  The
\* function returns before these lines when no row was generated.
MapSummary(os, bo) ==
    LET res == results(os, bo)
    IN IF Len(res) = 0 THEN NoSummary
       ELSE [printed |-> TRUE,
             total_records |-> Len(res),
             unique_order_ids |->
                 Cardinality({res[n].OrderId : n \in DOMAIN res}),
             zero_availability_dates |->
                 Cardinality({n \in DOMAIN res : res[n].AvailableCount = 0})]

\* The first run of main_filter.py on these two input files, with no output
\* file yet.
FilterInit(os, bo) ==
    /\ orders = os
    /\ blackout = bo
    /\ pc = "start"
    /\ results_df = <<>>
    /\ order_summary = <<>>
    /\ skip_log = <<>>
    /\ summary = NoSummary
    /\ mapped_file = Absent
    /\ minimum_availability_df = <<>>
    /\ min_availability_file = Absent
    /\ overall_minimum_df = <<>>
    /\ overall_min_file = Absent
    /\ run = 1

\* mail.py before process_and_send_alert, reading this orders export.
MailInit(file) ==
    /\ detailed_orders = file
    /\ mail_pc = "start"
    /\ filtered_data = NoFrame
    /\ email_content = NoContent
    /\ send_status = NotCalled
    /\ alert_result = NoResult

\* A DAG run that has been triggered: no task has started; the export folder
\* of main.py holds this file.
DagInit(file) ==
    /\ run_main_py = "none"
    /\ main_try = 0
    /\ run_mail_py = "none"
    /\ mail_try = 0
    /\ csv_export = file
    /\ export_written = FALSE

\* process_orders_and_fetch_data before its loop: the counters of lines
\* 240-242 and the empty list of results.
FetchInit(rows) ==
    /\ unique_orders = rows
    /\ fetch_idx = 0
    /\ fetch_results = <<>>
    /\ processed_count = 0
    /\ success_count = 0
    /\ error_count = 0

\* Nothing of the DAG or of the availability client is running.
Idle == DagInit(Absent) /\ FetchInit(<<>>)

Init ==
    /\ \E inp \in Inputs : FilterInit(inp[1], inp[2])
    /\ MailInit(Absent)
    /\ Idle

\* The mapping without the early return of lines 245-247: the sort of an
\* empty table by columns it does not have raises.
C21Mut_map_orders_to_blackout_data ==
    /\ pc = "start"
    /\ IF to_datetime_raises(orders) \/ Len(results(orders, blackout)) = 0
       THEN /\ pc' = "crashed"
            /\ UNCHANGED <<skip_log, summary, mapped_file, results_df,
                           order_summary>>
       ELSE /\ skip_log' = SkipLines(orders)
            /\ summary' = MapSummary(orders, blackout)
            /\ mapped_file' = to_csv(SortResults(results(orders, blackout)))
            /\ pc' = "mapped"
            /\ results_df' = MapReturn(orders, blackout)[1]
            /\ order_summary' = MapReturn(orders, blackout)[2]
    /\ UNCHANGED <<orders, blackout, minimum_availability_df,
                   min_availability_file, overall_minimum_df, overall_min_file,
                   run, mail_vars, dag_vars, fetch_vars>>

\* results_df, order_summary = map_orders_to_blackout_data()
map_orders_to_blackout_data ==
    /\ pc = "start"
    /\ IF to_datetime_raises(orders)
       THEN \* the exception is caught nowhere: the script ends before the loop
            /\ pc' = "crashed"
            /\ UNCHANGED <<skip_log, summary, mapped_file, results_df,
                           order_summary>>
       ELSE /\ skip_log' = SkipLines(orders)
            /\ summary' = MapSummary(orders, blackout)
            /\ LET res == results(orders, blackout)
               IN IF Len(res) = 0
                  THEN /\ mapped_file' = mapped_file
                       /\ pc' = "done"
                  ELSE /\ mapped_file' = to_csv(SortResults(res))
                       /\ pc' = "mapped"
            /\ results_df' = MapReturn(orders, blackout)[1]
            /\ order_summary' = MapReturn(orders, blackout)[2]
    /\ UNCHANGED <<orders, blackout, minimum_availability_df,
                   min_availability_file, overall_minimum_df, overall_min_file,
                   run, mail_vars, dag_vars, fetch_vars>>

\* resort_analysis = analyze_by_resort(): it reads mapped_file and writes two
\* files that nothing reads back.
analyze_by_resort ==
    /\ pc = "mapped"
    /\ pc' = "analyzed"
    /\ UNCHANGED <<orders, blackout, results_df, order_summary, skip_log,
                   mapped_file, minimum_availability_df, min_availability_file,
                   overall_minimum_df, overall_min_file, run, summary,
                   mail_vars, dag_vars, fetch_vars>>

\* minimum_availability_df = calculate_minimum_availability()
calculate_minimum_availability ==
    /\ pc = "analyzed"
    /\ IF ~mapped_file.exists \/ read_csv(mapped_file) = <<>>
       THEN min_availability_file' = min_availability_file
       ELSE \* an empty table is written, then the success rate divides by
            \* its length and the handler returns pd.DataFrame()
            min_availability_file' =
                File(min_availability(read_csv(mapped_file), orders))
    /\ minimum_availability_df' = MinReturn(mapped_file, orders)
    /\ pc' = "min_done"
    /\ UNCHANGED <<orders, blackout, results_df, order_summary, skip_log,
                   mapped_file, overall_minimum_df, overall_min_file,
                   run, summary, mail_vars, dag_vars, fetch_vars>>

\* overall_minimum_df = calculate_overall_minimum_availability()
calculate_overall_minimum_availability ==
    /\ pc = "min_done"
    /\ IF ~mapped_file.exists \/ read_csv(mapped_file) = <<>>
       THEN overall_min_file' = overall_min_file
       ELSE overall_min_file' = File(overall_min(read_csv(mapped_file)))
    /\ overall_minimum_df' = OverallReturn(mapped_file)
    /\ pc' = "done"
    /\ UNCHANGED <<orders, blackout, results_df, order_summary, skip_log,
                   mapped_file, minimum_availability_df, min_availability_file,
                   run, summary, mail_vars, dag_vars, fetch_vars>>

Next ==
    \/ map_orders_to_blackout_data
    \/ analyze_by_resort
    \/ calculate_minimum_availability
    \/ calculate_overall_minimum_availability

Spec == Init /\ [][Next]_vars

\* The same run on input files outside the data model.
InitRaw ==
    /\ \E inp \in RawInputs : FilterInit(inp[1], inp[2])
    /\ MailInit(Absent)
    /\ Idle

SpecRaw == InitRaw /\ [][Next]_vars

(***************************************************************************)
(* get_blackout.py run before main_filter.py.                              *)
(***************************************************************************)
\* availability_df = get_all_availability_data(): the query on today's rows,
\* then save_query_result_to_csv; when the connection or the query raises,
\* the handler returns an empty DataFrame and nothing is saved.
get_blackout ==
    /\ pc = "start"
    /\ \E db \in StoredTables : \E raises \in BOOLEAN :
         IF raises THEN blackout' = blackout
         ELSE \E df \in get_all_availability_data(db) :
                blackout' = save_query_result_to_csv(blackout, df)
    /\ UNCHANGED <<orders, pc, results_df, order_summary, skip_log, summary,
                   mapped_file, minimum_availability_df, min_availability_file,
                   overall_minimum_df, overall_min_file, run,
                   mail_vars, dag_vars, fetch_vars>>

NextExport ==
    \/ get_blackout
    \/ map_orders_to_blackout_data
    \/ analyze_by_resort
    \/ calculate_minimum_availability
    \/ calculate_overall_minimum_availability

\* The availability file of an earlier day: without rows, or one record.
InitExport ==
    /\ \E f \in {<<>>} \cup {<<a>> : a \in RunRecs} : FilterInit(TwoNightOrder, f)
    /\ MailInit(Absent)
    /\ Idle

SpecExport == InitExport /\ [][NextExport]_vars

(***************************************************************************)
(* Several runs of main_filter.py, one after the other, in one directory.  *)
(***************************************************************************)
MaxRuns == 2       \* runs of the script in one behaviour

\* Input files of one run: no order, or one order with or without a bed type
\* whose stay is empty (skipped) or one or two nights long.
RunOrderTables ==
    {<<>>}
    \cup {<<Order(1, rid, 1, FlagsOf(S), 1, dep)>> :
            rid \in ResortIds, S \in {{}, {"Bed1"}}, dep \in {1, 2, 3}}

RunInputs == RunOrderTables \X {ScenarioBlackout}

\* The script is started again after a run has ended: a new process (its
\* variables start empty) on new input files; the output files stay.
new_run ==
    /\ pc \in {"done", "crashed"}
    /\ run < MaxRuns
    /\ \E inp \in RunInputs : orders' = inp[1] /\ blackout' = inp[2]
    /\ pc' = "start"
    /\ run' = run + 1
    /\ results_df' = <<>>
    /\ order_summary' = <<>>
    /\ skip_log' = <<>>
    /\ summary' = NoSummary
    /\ minimum_availability_df' = <<>>
    /\ overall_minimum_df' = <<>>
    /\ UNCHANGED <<mapped_file, min_availability_file, overall_min_file,
                   mail_vars, dag_vars, fetch_vars>>

NextRuns ==
    \/ map_orders_to_blackout_data
    \/ analyze_by_resort
    \/ calculate_minimum_availability
    \/ calculate_overall_minimum_availability
    \/ new_run

InitRuns ==
    /\ \E inp \in RunInputs : FilterInit(inp[1], inp[2])
    /\ MailInit(Absent)
    /\ Idle

SpecRuns == InitRuns /\ [][NextRuns]_vars

(***************************************************************************)
(* The two analysis functions called on their own, on whatever mapped file *)
(* is there: none, one without rows, or one written by an earlier mapping. *)
(***************************************************************************)
CallInputs == RunInputs \cup (FlagOrders \X {ScenarioBlackout})

MappedFiles(os, bo) ==
    {Absent, File(<<>>), to_csv(MapReturn(os, bo)[1])}

\* A process at this position of the script, in a directory that holds one of
\* these mapped files and no other output file.
CallsInit(position) ==
    /\ \E inp \in CallInputs :
         \E f \in MappedFiles(inp[1], inp[2]) :
            /\ orders = inp[1]
            /\ blackout = inp[2]
            /\ mapped_file = f
    /\ pc = position
    /\ results_df = <<>>
    /\ order_summary = <<>>
    /\ skip_log = <<>>
    /\ summary = NoSummary
    /\ minimum_availability_df = <<>>
    /\ min_availability_file = Absent
    /\ overall_minimum_df = <<>>
    /\ overall_min_file = Absent
    /\ run = 1
    /\ MailInit(Absent)
    /\ Idle

InitCalls == CallsInit("analyzed")

NextCalls ==
    \/ calculate_minimum_availability
    \/ calculate_overall_minimum_availability

SpecCalls == InitCalls /\ [][NextCalls]_vars

\* The script started in such a directory, or its analysis functions called
\* on their own.
InitAny == CallsInit("start") \/ CallsInit("analyzed")

SpecAny == InitAny /\ [][Next]_vars

(***************************************************************************)
(* mail.py: process_and_send_alert.                                        *)
(***************************************************************************)
\* str(v).lower() on the PropertyType texts of the model.
Lower(v) ==
    CASE v = "None" -> "none"
      [] v = "NONE" -> "none"
      [] v = "Condo" -> "condo"
      [] v = "N/A" -> "n/a"
      [] v = "NA" -> "na"
      [] v = "NaN" -> "nan"
      [] v = "NULL" -> "null"
      [] OTHER -> v

\* property_type = row['PropertyType'] if pd.notna(...) and
\* str(...).lower() != 'none' else 'None'
email_property_type(v) == IF ~IsNull(v) /\ Lower(v) # "none" THEN v ELSE "None"

\* df[df['MinUnits'] > 0]
MinUnitsFilter(df) == SelectSeq(df, LAMBDA r : r.MinUnits > 0)

\* One row of result_df: the selected columns, MinUnits renamed.
ResultDfRow(r) ==
    [Vendor |-> r.Vendor, Resort |-> r.Resort, Arrival |-> r.Arrival,
     Departure |-> r.Departure, PropertyType |-> ReadPropertyType(r.PropertyType),
     RoomType |-> r.RoomType, RoomTypeDescription |-> get_room_type(r),
     InventoryCount |-> r.MinUnits]

\* What process_data_file returns for this file; set_raises: the selection of
\* columns by a set raises TypeError (it does from pandas 2.0 on, earlier
\* versions accept it).
ProcessDataFile(file, set_raises) ==
    IF ~file.exists THEN NoFrame
    ELSE IF MinUnitsFilter(file.rows) = <<>> THEN NoFrame
    ELSE IF set_raises THEN NoFrame
    ELSE Frame([i \in DOMAIN MinUnitsFilter(file.rows) |->
                   ResultDfRow(MinUnitsFilter(file.rows)[i])])

\* The cells of one table row of the HTML part and one block of the text part.
HtmlRow(row) ==
    [inventory_class |-> IF row.InventoryCount > 10 THEN "inventory-high" ELSE "",
     Vendor |-> row.Vendor, Resort |-> row.Resort,
     Arrival |-> Strftime(row.Arrival), Departure |-> Strftime(row.Departure),
     PropertyType |-> email_property_type(row.PropertyType),
     RoomType |-> row.RoomType, BedType |-> row.RoomTypeDescription,
     InventoryCount |-> row.InventoryCount]

TextRow(row) ==
    [Vendor |-> row.Vendor, Resort |-> row.Resort,
     Arrival |-> Strftime(row.Arrival), Departure |-> Strftime(row.Departure),
     PropertyType |-> email_property_type(row.PropertyType),
     RoomType |-> row.RoomType, BedType |-> row.RoomTypeDescription,
     InventoryCount |-> row.InventoryCount]

\* What create_email_content returns for this DataFrame.
CreateEmailContent(data) ==
    IF data.is_none \/ data.rows = <<>> THEN NoContent
    ELSE [is_none |-> FALSE,
          html |-> [i \in DOMAIN data.rows |-> HtmlRow(data.rows[i])],
          text |-> [i \in DOMAIN data.rows |-> TextRow(data.rows[i])]]

\* The pair process_and_send_alert returns.
Returned(success, message) ==
    [returned |-> TRUE, success |-> success, message |-> message]

\* filtered_data = self.process_data_file(file_path)
process_data_file ==
    /\ mail_pc = "start"
    /\ \E set_raises \in BOOLEAN :
         filtered_data' = ProcessDataFile(detailed_orders, set_raises)
    /\ mail_pc' = "processed"
    /\ UNCHANGED <<detailed_orders, email_content, send_status, alert_result,
                   filter_vars, dag_vars, fetch_vars>>

\* if filtered_data is None or filtered_data.empty: return False, "No records ..."
no_records_return ==
    /\ mail_pc = "processed"
    /\ filtered_data.is_none \/ filtered_data.rows = <<>>
    /\ alert_result' = Returned(FALSE, "No records meet the criteria")
    /\ mail_pc' = "returned"
    /\ UNCHANGED <<detailed_orders, filtered_data, email_content, send_status,
                   filter_vars, dag_vars, fetch_vars>>

\* html_content, text_content = self.create_email_content(filtered_data)
create_email_content ==
    /\ mail_pc = "processed"
    /\ ~(filtered_data.is_none \/ filtered_data.rows = <<>>)
    /\ email_content' = CreateEmailContent(filtered_data)
    /\ mail_pc' = "built"
    /\ UNCHANGED <<detailed_orders, filtered_data, send_status, alert_result,
                   filter_vars, dag_vars, fetch_vars>>

\* What self.mailjet.send.create can do: answer with status 200, answer with
\* another status and a JSON body ("401") or a body that is not JSON ("502",
\* the error page of a gateway), or raise.
SendOutcomes == {"200", "401", "502", "exception"}

\* result.json() in the log line of the non-200 branch (line 281) raises on a
\* body that is not JSON; the handler of lines 284-286 catches it.
json_raises(outcome) == outcome = "502"

\* send_email_to_multiple without the test of the status code: every answer
\* of the API counts as sent.
C27Mut_SendReturn(outcome) ==
    IF outcome = "exception" THEN Returned(FALSE, "Error sending email")
    ELSE Returned(TRUE, "Email sent successfully")

\* What send_email_to_multiple returns after this outcome of the send call.
SendReturn(outcome) ==
    CASE outcome = "200" -> Returned(TRUE, "Email sent successfully")
      [] outcome = "exception" -> Returned(FALSE, "Error sending email")
      [] json_raises(outcome) -> Returned(FALSE, "Error sending email")
      [] OTHER -> Returned(FALSE, "Failed to send email")

\* if not html_content: return False, "Failed to create email content"
\* success, message = self.send_email_to_multiple(...); return success, message
send_email_to_multiple ==
    /\ mail_pc = "built"
    /\ IF email_content.is_none
       THEN /\ send_status' = send_status
            /\ alert_result' = Returned(FALSE, "Failed to create email content")
       ELSE \E outcome \in SendOutcomes :
                /\ send_status' = outcome
                /\ alert_result' = SendReturn(outcome)
    /\ mail_pc' = "returned"
    /\ UNCHANGED <<detailed_orders, filtered_data, email_content,
                   filter_vars, dag_vars, fetch_vars>>

NextMail ==
    \/ process_data_file
    \/ no_records_return
    \/ create_email_content
    \/ send_email_to_multiple

\* Rows of the orders export read by mail.py: an order with its MinUnits.
DetailedRows ==
    {WithPropertyType(Order(1, 1, 1, FlagsOf({"Bed1"}), 1, 3), p)
        @@ [MinUnits |-> u] :
        p \in RawPropertyTypes \cup {"None", "NONE"}, u \in {0, 1, 11}}

DetailedFiles ==
    {Absent, File(<<>>)}
    \cup {File(<<a>>) : a \in DetailedRows}
    \cup {File(<<a, b>>) : a \in DetailedRows, b \in DetailedRows}

InitMail ==
    /\ FilterInit(<<>>, <<>>)
    /\ \E f \in DetailedFiles : MailInit(f)
    /\ Idle

SpecMail == InitMail /\ [][NextMail]_vars

(***************************************************************************)
(* dag/mail_dag.py: one run of intellypod_mailjet_dag.  run_main_py runs    *)
(* main.py, run_mail_py runs mail.py, and run_main >> run_mail makes        *)
(* run_mail_py wait for run_main_py; both tasks keep the default trigger   *)
(* rule (all upstream tasks succeeded).                                    *)
(***************************************************************************)
retries == 1       \* default_args['retries']

\* What get_all_resorts_data meets: no database connection, a query that
\* raises, a result without rows, or rows.
ExportRows ==
    {<<WithPropertyType(Order(1, 1, 1, FlagsOf({"Bed1"}), 1, 3), "Condo")
          @@ [MinUnits |-> u]>> : u \in {0, 1, 11}}

QueryOutcomes ==
    {[kind |-> k, rows |-> <<>>] : k \in {"no connection", "error", "empty"}}
    \cup {[kind |-> "rows", rows |-> rows] : rows \in ExportRows}

\* csv/all_resorts_detailed_orders.csv after get_all_resorts_data: written
\* only when the query returned rows; every other outcome returns None first.
get_all_resorts_data(file, outcome) ==
    IF outcome.kind = "rows" THEN File(outcome.rows) ELSE file

\* The scheduler starts run_main_py: its first try, or the retry.
start_run_main_py ==
    /\ run_main_py \in {"none", "up_for_retry"}
    /\ run_main_py' = "running"
    /\ main_try' = main_try + 1
    /\ UNCHANGED <<run_mail_py, mail_try, csv_export, export_written,
                   mail_vars, filter_vars, fetch_vars>>

\* python "main.py" ends.  main() catches every exception and only prints
\* "FAILED" for a query that returned None, so the exit status is 0 whatever
\* the query did; the status is non-zero only when the process dies outside
\* main() (exit_code TRUE: a failing import, a missing interpreter or file).
\* A failed try is retried while tries remain.
end_run_main_py ==
    /\ run_main_py = "running"
    /\ \E exit_code \in BOOLEAN :
         IF exit_code
         THEN /\ run_main_py' =
                    IF main_try <= retries THEN "up_for_retry" ELSE "failed"
              /\ UNCHANGED <<csv_export, export_written>>
         ELSE \E outcome \in QueryOutcomes :
                /\ run_main_py' = "success"
                /\ csv_export' = get_all_resorts_data(csv_export, outcome)
                /\ export_written' = (outcome.kind = "rows")
    /\ UNCHANGED <<main_try, run_mail_py, mail_try, mail_vars, filter_vars,
                   fetch_vars>>

\* run_mail_py with trigger rule all_done: it starts once its upstream task
\* has ended, successfully or not.
C28Mut_start_run_mail_py ==
    /\ run_mail_py \in {"none", "up_for_retry"}
    /\ run_main_py \in {"success", "failed"}
    /\ run_mail_py' = "running"
    /\ mail_try' = mail_try + 1
    /\ mail_pc' = "main"
    /\ UNCHANGED <<run_main_py, main_try, csv_export, export_written,
                   detailed_orders, filtered_data, email_content, send_status,
                   alert_result, filter_vars, fetch_vars>>

\* The scheduler starts run_mail_py once its upstream task has succeeded: its
\* first try, or the retry.
start_run_mail_py ==
    /\ run_mail_py \in {"none", "up_for_retry"}
    /\ run_main_py = "success"
    /\ run_mail_py' = "running"
    /\ mail_try' = mail_try + 1
    /\ mail_pc' = "main"
    /\ UNCHANGED <<run_main_py, main_try, csv_export, export_written,
                   detailed_orders, filtered_data, email_content, send_status,
                   alert_result, filter_vars, fetch_vars>>

\* The upstream task has failed for good: run_mail_py is not run.
upstream_failed ==
    /\ run_mail_py = "none"
    /\ run_main_py = "failed"
    /\ run_mail_py' = "upstream_failed"
    /\ UNCHANGED <<run_main_py, main_try, mail_try, csv_export, export_written,
                   mail_vars, filter_vars, fetch_vars>>

\* python "mail.py" dies before main() (a failing import, a missing
\* interpreter or file): the exit status is non-zero, and the try is repeated
\* while tries remain.
fail_run_mail_py ==
    /\ run_mail_py = "running"
    /\ mail_pc = "main"
    /\ run_mail_py' = IF mail_try <= retries THEN "up_for_retry" ELSE "failed"
    /\ mail_pc' = "not started"
    /\ UNCHANGED <<run_main_py, main_try, mail_try, csv_export, export_written,
                   detailed_orders, filtered_data, email_content, send_status,
                   alert_result, filter_vars, fetch_vars>>

\* email_service = MailjetEmailService(): __init__ raises ValueError when
\* ApiKey, ApiSecret or SenderEmail is not set, and main() of mail.py catches
\* it and prints "Error in main"; otherwise main() goes on to
\* process_and_send_alert.
MailjetEmailService ==
    /\ run_mail_py = "running"
    /\ mail_pc = "main"
    /\ \E credentials \in BOOLEAN :
         mail_pc' = IF credentials THEN "start" ELSE "error in main"
    /\ UNCHANGED <<dag_vars, detailed_orders, filtered_data, email_content,
                   send_status, alert_result, filter_vars, fetch_vars>>

\* python "mail.py" ends: main() of mail.py has printed the result, or the
\* error it caught, and returns; the exit status is 0.
end_run_mail_py ==
    /\ run_mail_py = "running"
    /\ mail_pc \in {"returned", "error in main"}
    /\ run_mail_py' = "success"
    /\ mail_pc' = "exited"
    /\ UNCHANGED <<run_main_py, main_try, mail_try, csv_export, export_written,
                   detailed_orders, filtered_data, email_content, send_status,
                   alert_result, filter_vars, fetch_vars>>

NextDag ==
    \/ start_run_main_py
    \/ end_run_main_py
    \/ start_run_mail_py
    \/ upstream_failed
    \/ fail_run_mail_py
    \/ MailjetEmailService
    \/ process_data_file
    \/ no_records_return
    \/ create_email_content
    \/ send_email_to_multiple
    \/ end_run_mail_py

\* The files the two scripts find when the DAG run is triggered: the folder
\* csvs/ read by mail.py and the folder csv/ written by main.py each hold no
\* export or one left by an earlier run.
StaleFiles == {Absent} \cup {File(rows) : rows \in ExportRows}

InitDag ==
    /\ FilterInit(<<>>, <<>>)
    /\ \E f \in StaleFiles : detailed_orders = f
    /\ mail_pc = "not started"
    /\ filtered_data = NoFrame
    /\ email_content = NoContent
    /\ send_status = NotCalled
    /\ alert_result = NoResult
    /\ \E f \in StaleFiles : DagInit(f)
    /\ FetchInit(<<>>)

SpecDag == InitDag /\ [][NextDag]_vars

(***************************************************************************)
(* api_call/fetch_data.py: the loop of process_orders_and_fetch_data.       *)
(***************************************************************************)
MaxFetchRows == 2  \* rows of unique_orders

\* A ResortId field that is missing (NaN): int(row['ResortId']) raises.
NoResortId == 0

\* The dictionary load_resort_mapping returns: ResortId to Wyndham resort id,
\* a float for every ResortId of the mapping file that has one.
resort_mapping == [rid \in ResortIds |-> 66 + rid]

\* create_product_id: 'PI|R' and the number padded to twelve digits, or None
\* when the number cannot be converted (no float of the mapping is such).
create_product_id(wyndham_resort_id) ==
    [is_none |-> FALSE, number |-> wyndham_resort_id]

\* bed_type of lines 246-256.
fetch_bed_type(row) ==
    IF row.Studio THEN "Studio"
    ELSE IF row.Bed1 THEN "1 Bedroom"
    ELSE IF row.Bed2 THEN "2 Bedroom"
    ELSE IF row.Bed3 THEN "3 Bedroom"
    ELSE IF row.Bed4 THEN "4 Bedroom"
    ELSE PyNone

\* What the call of fetch_resort_availability can do: return the JSON of a
\* 200 answer ("data", or "empty" for a JSON value that is false in Python),
\* return None (another status, or a RequestException), or let another
\* exception through ("raises").
ApiResponses == {"data", "empty", "none", "raises"}

\* How the loop body ends for this row and this answer of the API.
RowOutcome(row, response) ==
    IF row.ResortId = NoResortId THEN "row error"
    ELSE IF row.ResortId \notin DOMAIN resort_mapping THEN "no mapping"
    ELSE IF create_product_id(resort_mapping[row.ResortId]).is_none
         THEN "no product id"
    ELSE IF row.Arrival = Malformed \/ row.Departure = Malformed
         THEN "invalid date"
    ELSE IF response = "raises" THEN "row error"
    ELSE IF response = "data" THEN "success"
    ELSE "failed"

\* The handler of the date conversion without its continue: the row goes on
\* to the request and a result is appended for it.
C30Mut_AddsResult(outcome) == outcome \in {"success", "failed", "invalid date"}

\* The body reaches processed_count += 1 and appends a result.
AddsResult(outcome) == outcome \in {"success", "failed"}

\* The dictionary appended to results.
FetchResult(row, outcome) ==
    [resort_id |-> row.ResortId,
     product_id |-> create_product_id(resort_mapping[row.ResortId]).number,
     check_in |-> Strftime(row.Arrival), check_out |-> Strftime(row.Departure),
     min_units |-> row.MinUnits, bed_type |-> fetch_bed_type(row),
     api_data |-> IF outcome = "success" THEN "data" ELSE PyNone,
     status |-> IF outcome = "success" THEN "success" ELSE "failed"]

\* One pass of the loop body, for the next row of unique_orders.
fetch_row ==
    /\ fetch_idx < Len(unique_orders)
    /\ \E response \in ApiResponses :
         LET row == unique_orders[fetch_idx + 1]
             outcome == RowOutcome(row, response)
         IN /\ fetch_results' =
                  IF AddsResult(outcome)
                  THEN Append(fetch_results, FetchResult(row, outcome))
                  ELSE fetch_results
            /\ processed_count' =
                  IF AddsResult(outcome) THEN processed_count + 1
                  ELSE processed_count
            /\ success_count' =
                  IF outcome = "success" THEN success_count + 1
                  ELSE success_count
            /\ error_count' =
                  IF outcome = "success" THEN error_count ELSE error_count + 1
    /\ fetch_idx' = fetch_idx + 1
    /\ UNCHANGED <<unique_orders, filter_vars, mail_vars, dag_vars>>

NextFetch == fetch_row

\* Rows of unique_orders: MinUnits above 1, a ResortId that is mapped (1, 2),
\* not mapped (3) or missing, dates that parse or not.
FetchRows ==
    {(FlagsOf({"Bed1"}) @@
       [ResortId |-> rid, Resort |-> "Resort", Arrival |-> arr,
        Departure |-> MaxDay, MinUnits |-> 2]) :
       rid \in {NoResortId, 1, 2, 3}, arr \in {1, Malformed}}

\* Tables without a duplicate row (drop_duplicates), of at most MaxFetchRows
\* rows.
RECURSIVE FetchTables(_)
FetchTables(n) ==
    IF n = 0 THEN {<<>>}
    ELSE FetchTables(n - 1)
         \cup {Append(t, r) : t \in {t \in FetchTables(n - 1) : Len(t) = n - 1},
                              r \in FetchRows}

NoDuplicate(t) == \A i \in DOMAIN t : \A j \in DOMAIN t : t[i] = t[j] => i = j

InitFetch ==
    /\ FilterInit(<<>>, <<>>)
    /\ MailInit(Absent)
    /\ DagInit(Absent)
    /\ \E t \in {t \in FetchTables(MaxFetchRows) : NoDuplicate(t)} : FetchInit(t)

SpecFetch == InitFetch /\ [][NextFetch]_vars

(***************************************************************************)
(* Properties.                                                             *)
(***************************************************************************)
Mapped == pc # "start"
MinDone == pc \in {"min_done", "done"}
AllDone == pc = "done" /\ results_df # <<>>

\* Rows of the mapped table of one OrderId, and of one OrderId and date.
RowsOfOrder(id) == {i \in DOMAIN results_df : results_df[i].OrderId = id}
RowsOfNight(id, d) ==
    {i \in RowsOfOrder(id) : results_df[i].Date = Strftime(d)}

\* Number of rows of the orders table equal to this one.
Copies(o) == Cardinality({j \in DOMAIN orders : orders[j] = o})

\* C1: every order whose Departure is strictly later than its Arrival has
\* exactly (Departure - Arrival) rows in the mapped table, one for each date
\* from Arrival through Departure - 1 and none for the Departure date (per copy
\* of the order in the orders table).
C1_NightsPerOrder ==
    Mapped =>
      \A k \in DOMAIN orders :
        LET o == orders[k] IN
        o.Departure > o.Arrival =>
          /\ Cardinality(RowsOfOrder(o.OrderId))
               = Copies(o) * (o.Departure - o.Arrival)
          /\ \A d \in o.Arrival..(o.Departure - 1) :
               Cardinality(RowsOfNight(o.OrderId, d)) = Copies(o)
          /\ RowsOfNight(o.OrderId, o.Departure) = {}

\* A mapped stay of two or more nights.
C1_Witness ==
    /\ Mapped
    /\ \E k \in DOMAIN orders :
         /\ orders[k].Departure - orders[k].Arrival >= 2
         /\ Cardinality(RowsOfOrder(orders[k].OrderId)) >= 2

\* AvailableCount of the mapped rows of one OrderId.
NightCounts(id) == {results_df[i].AvailableCount : i \in RowsOfOrder(id)}

\* The orders that reach the grouped tables: processed, with a bed type.
Grouped(o) == Processed(o) /\ bed_type(o) # PyNone

\* Row t of the per-order table is the row of order o.
IsRowOf(t, o) ==
    /\ t.Resort = o.Resort
    /\ t.BedType = bed_type(o)
    /\ t.Arrival = Strftime(o.Arrival)
    /\ t.Departure = Strftime(o.Departure)

\* C2: in the per-order table, Min_Available of an order is the minimum of the
\* AvailableCount of that order's mapped rows: it is one of them, it is less
\* than or equal to each of them, and it is 0 when any of them is 0.
C2_MinIsMinimumOfNights ==
    MinDone =>
      /\ \A k \in DOMAIN orders :
           Grouped(orders[k]) =>
             \E i \in DOMAIN minimum_availability_df :
               LET t == minimum_availability_df[i] IN
               /\ IsRowOf(t, orders[k])
               /\ t.Min_Available \in NightCounts(orders[k].OrderId)
               /\ \A c \in NightCounts(orders[k].OrderId) : t.Min_Available <= c
               /\ 0 \in NightCounts(orders[k].OrderId) => t.Min_Available = 0
      /\ \A i \in DOMAIN minimum_availability_df :
           LET t == minimum_availability_df[i] IN
           \E k \in DOMAIN orders :
             /\ Grouped(orders[k])
             /\ IsRowOf(t, orders[k])
             /\ t.Min_Available \in NightCounts(orders[k].OrderId)
             /\ \A c \in NightCounts(orders[k].OrderId) : t.Min_Available <= c

\* A per-order row whose order has nights of different counts, none of them 0.
C2_Witness ==
    /\ MinDone
    /\ \E i \in DOMAIN minimum_availability_df, k \in DOMAIN orders :
         /\ Grouped(orders[k])
         /\ IsRowOf(minimum_availability_df[i], orders[k])
         /\ Cardinality(NightCounts(orders[k].OrderId)) >= 2
         /\ minimum_availability_df[i].Min_Available > 0

\* C3: every (Resort, BedType) of the per-order table has a row in the overall
\* table, and that row's Absolute_Min_Available is less than or equal to the
\* Min_Available of every order of the group; per-order minimums 0 and 4 in one
\* group give Absolute_Min_Available 0.
C3_AbsoluteMinBelowOrderMins ==
    AllDone =>
      /\ \A i \in DOMAIN minimum_availability_df :
           LET t == minimum_availability_df[i] IN
           \E j \in DOMAIN overall_minimum_df :
             LET g == overall_minimum_df[j] IN
             /\ g.Resort = t.Resort
             /\ g.BedType = t.BedType
             /\ g.Absolute_Min_Available <= t.Min_Available
      /\ \A j \in DOMAIN overall_minimum_df :
           LET g == overall_minimum_df[j]
               mins == {minimum_availability_df[i].Min_Available :
                          i \in {n \in DOMAIN minimum_availability_df :
                                   /\ minimum_availability_df[n].Resort = g.Resort
                                   /\ minimum_availability_df[n].BedType = g.BedType}}
           IN /\ mins # {}
              /\ \A m \in mins : g.Absolute_Min_Available <= m
              /\ {0, 4} \subseteq mins => g.Absolute_Min_Available = 0

\* Two orders of one group with per-order minimums 0 and 4.
C3_Witness ==
    /\ AllDone
    /\ \E i, n \in DOMAIN minimum_availability_df, j \in DOMAIN overall_minimum_df :
         /\ minimum_availability_df[i].Min_Available = 0
         /\ minimum_availability_df[n].Min_Available = 4
         /\ minimum_availability_df[i].Resort = minimum_availability_df[n].Resort
         /\ minimum_availability_df[i].BedType = minimum_availability_df[n].BedType
         /\ overall_minimum_df[j].Resort = minimum_availability_df[i].Resort
         /\ overall_minimum_df[j].BedType = minimum_availability_df[i].BedType
         /\ overall_minimum_df[j].Absolute_Min_Available = 0

\* C4: Risk_Level of a row of the overall table is 'Critical' when its
\* Absolute_Min_Available is 0, 'High Risk' when 1, 'Medium Risk' when 2 or 3
\* and 'Low Risk' when greater than 3.
C4_RiskLevelByAbsoluteMin ==
    AllDone =>
      \A j \in DOMAIN overall_minimum_df :
        LET g == overall_minimum_df[j]
            x == g.Absolute_Min_Available
        IN /\ x = 0 => g.Risk_Level = "Critical"
           /\ x = 1 => g.Risk_Level = "High Risk"
           /\ x \in {2, 3} => g.Risk_Level = "Medium Risk"
           /\ x > 3 => g.Risk_Level = "Low Risk"

\* An overall table with a row of each of the four levels.
C4_Witness ==
    /\ AllDone
    /\ \A l \in {"Critical", "High Risk", "Medium Risk", "Low Risk"} :
         \E j \in DOMAIN overall_minimum_df : overall_minimum_df[j].Risk_Level = l
    /\ \E j \in DOMAIN overall_minimum_df :
         overall_minimum_df[j].Absolute_Min_Available = 3

\* C5: Overall_Status is 'Available' exactly when Absolute_Min_Available is
\* greater than 0 and 'Not Available' otherwise, so it is 'Not Available'
\* exactly when Risk_Level is 'Critical'.
C5_OverallStatus ==
    AllDone =>
      \A j \in DOMAIN overall_minimum_df :
        LET g == overall_minimum_df[j] IN
        /\ g.Overall_Status = "Available" <=> g.Absolute_Min_Available > 0
        /\ g.Overall_Status = "Not Available" <=> ~(g.Absolute_Min_Available > 0)
        /\ g.Overall_Status = "Not Available" <=> g.Risk_Level = "Critical"

\* An overall table with an available group of minimum 1 and an unavailable one.
C5_Witness ==
    /\ AllDone
    /\ \E j, n \in DOMAIN overall_minimum_df :
         /\ overall_minimum_df[j].Absolute_Min_Available = 1
         /\ overall_minimum_df[j].Overall_Status = "Available"
         /\ overall_minimum_df[n].Absolute_Min_Available = 0
         /\ overall_minimum_df[n].Overall_Status = "Not Available"

\* The availability records of the given resort, property type and formatted
\* date whose flag for column bt is set (every such record when bt is null).
Contributing(rid, pt, date, bt) ==
    {n \in DOMAIN blackout :
        /\ blackout[n].ResortId = rid
        /\ blackout[n].PropertyTypeId = pt
        /\ Strftime(blackout[n].Date) = date
        /\ (bt # PyNone => blackout[n][bt] = TRUE)}

RECURSIVE TotalOf(_)
TotalOf(S) ==
    IF S = {} THEN 0
    ELSE LET n == CHOOSE m \in S : TRUE
         IN blackout[n].AvailableCount + TotalOf(S \ {n})

\* C6: for a mapped row with a bed type, AvailableCount is the sum of
\* AvailableCount over the availability records with the row's ResortId,
\* PropertyTypeId and Date whose flag for that bed type is true; no other
\* record contributes.
C6_CountIsSumOfMatches ==
    Mapped =>
      \A i \in DOMAIN results_df :
        LET r == results_df[i] IN
        r.BedType # PyNone =>
          r.AvailableCount =
            TotalOf(Contributing(r.ResortId, r.PropertyTypeId, r.Date, r.BedType))

\* A row with a positive count next to a record of the same resort, property
\* type and date that has the row's flag false and a positive count.
C6_Witness ==
    /\ Mapped
    /\ \E i \in DOMAIN results_df, n \in DOMAIN blackout :
         LET r == results_df[i] IN
         /\ r.BedType # PyNone
         /\ r.AvailableCount > 0
         /\ n \in Contributing(r.ResortId, r.PropertyTypeId, r.Date, PyNone)
         /\ blackout[n][r.BedType] = FALSE
         /\ blackout[n].AvailableCount > 0

NoFlag(o) == \A c \in BedCols : o[c] = FALSE

\* C7 as stated: an order whose five flags are all false has BedType null and
\* AvailableCount 0 on every night, whatever the availability records.
C7_NoFlagCountIsZero ==
    Mapped =>
      \A k \in DOMAIN orders :
        NoFlag(orders[k]) =>
          \A i \in RowsOfOrder(orders[k].OrderId) :
            /\ results_df[i].BedType = PyNone
            /\ results_df[i].AvailableCount = 0

\* C7 amended: an order whose five flags are all false has BedType null and, on
\* every night, AvailableCount equal to the sum over all availability records
\* of its resort, property type and date, whatever their flags.
C7_NoFlagCountIsUnfilteredSum ==
    Mapped =>
      \A k \in DOMAIN orders :
        NoFlag(orders[k]) =>
          \A i \in RowsOfOrder(orders[k].OrderId) :
            LET r == results_df[i] IN
            /\ r.BedType = PyNone
            /\ r.AvailableCount =
                 TotalOf(Contributing(r.ResortId, r.PropertyTypeId, r.Date, PyNone))

\* A night of an order without flags that has a positive count.
C7_Witness ==
    /\ Mapped
    /\ \E k \in DOMAIN orders :
         /\ NoFlag(orders[k])
         /\ \E i \in RowsOfOrder(orders[k].OrderId) :
              results_df[i].AvailableCount > 0

\* The fixed order of the flags and the names mail.py gives them.
Priority == <<"Studio", "Bed1", "Bed2", "Bed3", "Bed4">>
RoomNames == <<"Studio", "1 Bedroom", "2 Bedroom", "3 Bedroom", "4 Bedroom">>
IsFirstTrue(o, p) == o[Priority[p]] = TRUE /\ \A q \in 1..(p - 1) : o[Priority[q]] = FALSE

\* C8: the bed type of an order is the first true flag in the order Studio,
\* Bed1, Bed2, Bed3, Bed4 (null when none is true), in the mapped rows of
\* main_filter.py and in get_room_type of mail.py.
C8_FirstTrueFlagWins ==
    Mapped =>
      \A k \in DOMAIN orders :
        LET o == orders[k] IN
        /\ \A p \in 1..5 :
             IsFirstTrue(o, p) =>
               /\ \A i \in RowsOfOrder(o.OrderId) : results_df[i].BedType = Priority[p]
               /\ get_room_type(o) = RoomNames[p]
        /\ NoFlag(o) =>
               /\ \A i \in RowsOfOrder(o.OrderId) : results_df[i].BedType = PyNone
               /\ get_room_type(o) = "Unknown"

\* A mapped order with several flags true, the first of them not Studio.
C8_Witness ==
    /\ Mapped
    /\ \E k \in DOMAIN orders :
         /\ ~orders[k].Studio /\ ~orders[k].Bed1
         /\ orders[k].Bed2 /\ orders[k].Bed4
         /\ \E i \in RowsOfOrder(orders[k].OrderId) : results_df[i].BedType = "Bed2"

\* The orders table without its k-th row.
Without(os, k) == [i \in 1..(Len(os) - 1) |-> IF i < k THEN os[i] ELSE os[i + 1]]

\* C9: an order with Departure <= Arrival has no row in the mapped table, and
\* the mapped table is the one produced from the orders table without it.
C9_InvertedRangeSkipped ==
    Mapped =>
      \A k \in DOMAIN orders :
        orders[k].Departure <= orders[k].Arrival =>
          /\ RowsOfOrder(orders[k].OrderId) = {}
          /\ results_df = MapReturn(Without(orders, k), blackout)[1]

\* A skipped order next to an order that was mapped.
C9_Witness ==
    /\ Mapped
    /\ results_df # <<>>
    /\ \E k \in DOMAIN orders : orders[k].Departure <= orders[k].Arrival

\* C10: every skipped order is counted and the count is surfaced to the caller
\* at the end of the run, so what the caller receives for an orders table
\* differs from what it receives for the same table without one of its
\* skipped orders.
C10_SkipCountSurfaced ==
    Mapped =>
      \A k \in DOMAIN orders :
        ~Processed(orders[k]) =>
          <<results_df, order_summary>> # MapReturn(Without(orders, k), blackout)

\* An order whose two date fields can be parsed.
WellFormed(o) == o.Arrival # Malformed /\ o.Departure # Malformed

\* C11: a malformed date on one order does not abort
\* map_orders_to_blackout_data: the run goes on, and every other order with a
\* valid date range (Departure after Arrival) has a row in the mapped table for
\* each of its nights.
C11_MalformedDateDoesNotAbort ==
    pc # "start" =>
        /\ pc # "crashed"
        /\ \A k \in DOMAIN orders :
              (WellFormed(orders[k]) /\ orders[k].Departure > orders[k].Arrival) =>
                  \A d \in orders[k].Arrival..(orders[k].Departure - 1) :
                      RowsOfNight(orders[k].OrderId, d) # {}

\* The mapped row has no matching availability record: none of its ResortId,
\* PropertyTypeId and Date with the flag of its bed type.
Unmatched(r) == Contributing(r.ResortId, r.PropertyTypeId, r.Date, r.BedType) = {}

\* C12: a mapped row without a matching availability record has AvailableCount
\* 0 (a number, not a missing value), and an order of the per-order table with
\* such a night has Min_Available 0.
C12_UnmatchedNightIsZero ==
    /\ Mapped =>
         \A i \in DOMAIN results_df :
           Unmatched(results_df[i]) => results_df[i].AvailableCount = 0
    /\ MinDone =>
         \A k \in DOMAIN orders :
           (/\ Grouped(orders[k])
            /\ \E i \in RowsOfOrder(orders[k].OrderId) : Unmatched(results_df[i])) =>
               /\ \E n \in DOMAIN minimum_availability_df :
                     IsRowOf(minimum_availability_df[n], orders[k])
               /\ \A n \in DOMAIN minimum_availability_df :
                     IsRowOf(minimum_availability_df[n], orders[k]) =>
                         minimum_availability_df[n].Min_Available = 0

\* An order of the per-order table with one unmatched night and one night of
\* positive count.
C12_Witness ==
    /\ MinDone
    /\ \E k \in DOMAIN orders :
         /\ Grouped(orders[k])
         /\ \E i, j \in RowsOfOrder(orders[k].OrderId) :
              /\ Unmatched(results_df[i])
              /\ results_df[j].AvailableCount > 0
         /\ \E n \in DOMAIN minimum_availability_df :
              /\ IsRowOf(minimum_availability_df[n], orders[k])
              /\ minimum_availability_df[n].Min_Available = 0

\* C13: every AvailableCount of the mapped table, every Min_Available of the
\* per-order table and every Absolute_Min_Available of the overall table is a
\* non-negative integer, whatever availability table was given.
C13_CountsNonNegative ==
    /\ \A i \in DOMAIN results_df : results_df[i].AvailableCount \in Nat
    /\ \A i \in DOMAIN minimum_availability_df :
         minimum_availability_df[i].Min_Available \in Nat
    /\ \A i \in DOMAIN overall_minimum_df :
         overall_minimum_df[i].Absolute_Min_Available \in Nat

\* The records of S that belong to the latest run of their ResortId and Date in
\* the availability table.
LatestRun(S) ==
    {n \in S :
        \A m \in DOMAIN blackout :
            (blackout[m].ResortId = blackout[n].ResortId
             /\ blackout[m].Date = blackout[n].Date) =>
                blackout[m].RunCount <= blackout[n].RunCount}

\* C14: when the availability table carries RunCount, the AvailableCount of a
\* mapped row is the sum over the matching records of the greatest RunCount of
\* their (ResortId, Date) only; records of older runs contribute nothing.
C14_LatestRunOnly ==
    (Mapped /\ \A n \in DOMAIN blackout : "RunCount" \in DOMAIN blackout[n]) =>
        \A i \in DOMAIN results_df :
          LET r == results_df[i] IN
          r.AvailableCount =
            TotalOf(LatestRun(Contributing(r.ResortId, r.PropertyTypeId,
                                           r.Date, r.BedType)))

\* A PropertyType field that stands for "no value": empty, blank, or one of
\* N/A, n/a, NA, na, nan, NaN, null, NULL.
Sentinels == {"", " ", "N/A", "n/a", "NA", "na", "nan", "NaN", "null", "NULL"}

\* C15: in the per-order table, returned and written, the row of an order
\* whose PropertyType field is absent, blank or a sentinel has PropertyType
\* 'None', and no row carries a sentinel or a missing value.
C15_PropertyTypeNormalized ==
    MinDone =>
      /\ \A k \in DOMAIN orders :
           (Grouped(orders[k]) /\ orders[k].PropertyType \in Sentinels) =>
             /\ \E n \in DOMAIN minimum_availability_df :
                   IsRowOf(minimum_availability_df[n], orders[k])
             /\ \A n \in DOMAIN minimum_availability_df :
                   IsRowOf(minimum_availability_df[n], orders[k]) =>
                       minimum_availability_df[n].PropertyType = "None"
      /\ \A n \in DOMAIN minimum_availability_df :
           ~IsNull(minimum_availability_df[n].PropertyType)
           /\ minimum_availability_df[n].PropertyType \notin Sentinels
      /\ min_availability_file.exists =>
           min_availability_file.rows = minimum_availability_df

\* A per-order table with the row of an order whose field is 'na', shown as
\* 'None', next to a row that keeps its property type.
C15_Witness ==
    /\ MinDone
    /\ \E k \in DOMAIN orders, n, m \in DOMAIN minimum_availability_df :
         /\ orders[k].PropertyType = "na"
         /\ IsRowOf(minimum_availability_df[n], orders[k])
         /\ minimum_availability_df[n].PropertyType = "None"
         /\ minimum_availability_df[m].PropertyType = "Condo"

\* C16: in the HTML and the text part of the email, the PropertyType of a row
\* whose field in the orders export is empty, blank or a sentinel is shown as
\* 'None', as in the per-order table of main_filter.py.
C16_EmailPropertyTypeNormalized ==
    mail_pc = "built" =>
      LET src == MinUnitsFilter(detailed_orders.rows) IN
      \A i \in DOMAIN src :
        src[i].PropertyType \in Sentinels =>
          /\ email_content.html[i].PropertyType = "None"
          /\ email_content.text[i].PropertyType = "None"
          /\ email_content.html[i].PropertyType
               = CleanPropertyType(ReadPropertyType(src[i].PropertyType))

\* Row a may stand directly before row b in ascending order of
\* (Resort, BedType, Min_Available).
InOrder(a, b) ==
    \/ StrRank(a.Resort) < StrRank(b.Resort)
    \/ /\ a.Resort = b.Resort
       /\ StrRank(a.BedType) < StrRank(b.BedType)
    \/ /\ a.Resort = b.Resort
       /\ a.BedType = b.BedType
       /\ a.Min_Available <= b.Min_Available

\* C17: the rows of the per-order table, returned and written, are in
\* ascending lexicographic order of (Resort, BedType, Min_Available): of two
\* consecutive rows with equal Resort and BedType the earlier has the smaller
\* or equal Min_Available.
C17_PerOrderTableSorted ==
    MinDone =>
      /\ \A i \in 1..(Len(minimum_availability_df) - 1) :
           InOrder(minimum_availability_df[i], minimum_availability_df[i + 1])
      /\ min_availability_file.exists =>
           \A i \in 1..(Len(min_availability_file.rows) - 1) :
             InOrder(min_availability_file.rows[i], min_availability_file.rows[i + 1])

\* Two consecutive rows of one resort and bed type, the first with minimum 0
\* and the second with a positive minimum, where the order of the first row
\* has the greater OrderId (the sort moved it forward).
C17_Witness ==
    /\ MinDone
    /\ \E i \in 1..(Len(minimum_availability_df) - 1), k, l \in DOMAIN orders :
         LET a == minimum_availability_df[i]
             b == minimum_availability_df[i + 1]
         IN /\ a.Resort = b.Resort
            /\ a.BedType = b.BedType
            /\ a.Min_Available = 0
            /\ b.Min_Available > 0
            /\ IsRowOf(a, orders[k])
            /\ IsRowOf(b, orders[l])
            /\ orders[k].OrderId > orders[l].OrderId

\* The rows the three output files hold after one run on these inputs alone.
MappedOf(os, bo) == to_csv(MapReturn(os, bo)[1]).rows
PerOrderOf(os, bo) ==
    IF MapReturn(os, bo)[1] = <<>> THEN <<>>
    ELSE min_availability(read_csv(to_csv(MapReturn(os, bo)[1])), os)
OverallOf(os, bo) ==
    IF MapReturn(os, bo)[1] = <<>> THEN <<>>
    ELSE overall_min(read_csv(to_csv(MapReturn(os, bo)[1])))

\* C19: when a run has ended, each output file holds what follows from the
\* inputs of that run alone, also when the run generated no row: no row of an
\* earlier run is left in the mapped, per-order or overall file.
C19_OutputsOfLastRunOnly ==
    pc = "done" =>
      /\ mapped_file.rows = MappedOf(orders, blackout)
      /\ min_availability_file.rows = PerOrderOf(orders, blackout)
      /\ overall_min_file.rows = OverallOf(orders, blackout)

\* The mapped file cannot be read: processing fails with FileNotFoundError.
MappedFileMissing == ~mapped_file.exists

\* C20: the value calculate_minimum_availability and
\* calculate_overall_minimum_availability return when processing fails (here:
\* the mapped file is missing) differs from the value they return for a mapped
\* table without rows.
C20_FailureDistinctFromEmpty ==
    /\ (MinDone /\ MappedFileMissing) =>
          minimum_availability_df # MinReturn(File(<<>>), orders)
    /\ (pc = "done" /\ MappedFileMissing) =>
          overall_minimum_df # OverallReturn(File(<<>>))

\* Every order of the input is skipped (or there is no order): no OrderNight
\* row is generated.
AllSkipped == \A k \in DOMAIN orders : orders[k].Departure <= orders[k].Arrival

\* The mapped file holds no OrderNight row.
NoMappedRows == ~mapped_file.exists \/ mapped_file.rows = <<>>

\* C21: when there are no OrderNight rows, map_orders_to_blackout_data returns
\* two empty tables, calculate_minimum_availability and
\* calculate_overall_minimum_availability return an empty table, and none of
\* them ends with an exception.
C21_NoRowsReturnsEmpty ==
    /\ (pc # "start" /\ AllSkipped) =>
           /\ pc # "crashed"
           /\ results_df = EmptyDataFrame
           /\ order_summary = EmptyDataFrame
    /\ (pc \in {"min_done", "done"} /\ NoMappedRows) =>
           /\ minimum_availability_df = EmptyDataFrame
           /\ overall_minimum_df = EmptyDataFrame

\* The mapping has returned for an input whose orders were all skipped.
C21_Witness ==
    /\ pc = "done"
    /\ orders # <<>>
    /\ AllSkipped
    /\ skip_log # <<>>
    /\ results_df = EmptyDataFrame
    /\ order_summary = EmptyDataFrame
    /\ minimum_availability_df = EmptyDataFrame

\* C22: when the mapped order-night file cannot be read, the run fails at the
\* read: no analysis function returns to its caller as after a completed
\* step, so the run never stands after calculate_minimum_availability or at
\* its end.
C22_UnreadableInputStopsRun ==
    MappedFileMissing => pc \notin {"min_done", "done"}

\* C23: once map_orders_to_blackout_data has returned, the summary counts of
\* the run have been printed, also when the run generated no OrderNight row.
C23_SummaryAlwaysReported ==
    Mapped => summary.printed

\* C24: no two rows of the mapped table have the same OrderId and the same
\* Date.
C24_OneRowPerOrderNight ==
    Mapped =>
      \A m \in DOMAIN results_df :
        \A n \in DOMAIN results_df :
          (/\ results_df[m].OrderId = results_df[n].OrderId
           /\ results_df[m].Date = results_df[n].Date) => m = n

\* Orders that generated rows and show the same Resort, BedType, Arrival and
\* Departure as this one: the per-order table has no OrderId column, so their
\* rows can only be counted together.
SameLookingOrderIds(o) ==
    {orders[j].OrderId : j \in {j \in DOMAIN orders :
        /\ RowsOfOrder(orders[j].OrderId) # {}
        /\ orders[j].Resort = o.Resort
        /\ bed_type(orders[j]) = bed_type(o)
        /\ orders[j].Arrival = o.Arrival
        /\ orders[j].Departure = o.Departure}}

\* C25: every order with at least one row in the mapped table has exactly one
\* row in the per-order table: the rows that show its Resort, BedType, Arrival
\* and Departure are as many as the orders that look like it.
C25_EveryOrderOnceInPerOrderTable ==
    MinDone =>
      \A k \in DOMAIN orders :
        RowsOfOrder(orders[k].OrderId) # {} =>
          Cardinality({n \in DOMAIN minimum_availability_df :
                          IsRowOf(minimum_availability_df[n], orders[k])})
            = Cardinality(SameLookingOrderIds(orders[k]))

\* Rows of the orders export read by mail.py whose MinUnits is positive.
WithInventory ==
    {i \in DOMAIN detailed_orders.rows : detailed_orders.rows[i].MinUnits > 0}

\* Row r of the report shows order o of the export.
ReportsOrder(r, o) ==
    /\ r.Vendor = o.Vendor
    /\ r.Resort = o.Resort
    /\ r.Arrival = o.Arrival
    /\ r.Departure = o.Departure
    /\ r.RoomType = o.RoomType
    /\ r.InventoryCount = o.MinUnits

\* C26: the report process_data_file returns for a file that has orders with
\* MinUnits > 0 holds exactly these orders: as many rows as there are such
\* orders, each such order on one row with InventoryCount equal to its
\* MinUnits, and no row with InventoryCount 0.
C26_ReportHasOrdersWithInventory ==
    (mail_pc # "start" /\ WithInventory # {}) =>
       /\ ~filtered_data.is_none
       /\ Len(filtered_data.rows) = Cardinality(WithInventory)
       /\ \A i \in WithInventory :
             \E n \in DOMAIN filtered_data.rows :
                ReportsOrder(filtered_data.rows[n], detailed_orders.rows[i])
       /\ \A n \in DOMAIN filtered_data.rows :
             filtered_data.rows[n].InventoryCount > 0

\* C27: when no order of the export has MinUnits > 0, or process_data_file
\* could not process the file (it returned None), process_and_send_alert does
\* not call the Mailjet send API and returns success False; and whenever it
\* returns success True the send call has answered with status 200.
C27_SendsOnlyRecords ==
    /\ (WithInventory = {} \/ (mail_pc # "start" /\ filtered_data.is_none)) =>
          /\ send_status = NotCalled
          /\ mail_pc \in {"start", "processed", "returned"}
          /\ mail_pc = "returned" =>
                (alert_result.returned /\ ~alert_result.success)
    /\ alert_result.success => send_status = "200"

\* The method has returned for an export that has orders, none with MinUnits
\* above 0: no send call, success False.
C27_Witness ==
    /\ mail_pc = "returned"
    /\ detailed_orders.rows # <<>>
    /\ WithInventory = {}
    /\ send_status = NotCalled
    /\ alert_result = Returned(FALSE, "No records meet the criteria")

\* mail.py has been started in this DAG run.
MailStarted ==
    \/ run_mail_py \in {"running", "up_for_retry", "failed", "success"}
    \/ mail_try > 0
    \/ mail_pc # "not started"

\* C28: in a run of intellypod_mailjet_dag, run_mail_py has started only if
\* run_main_py has ended successfully; run_main_py fails only after its
\* second try (one retry), and then run_mail_py is not run.
C28_MailAfterMainSucceeded ==
    /\ MailStarted => run_main_py = "success"
    /\ run_main_py = "failed" =>
          /\ main_try = retries + 1
          /\ ~MailStarted
          /\ send_status = NotCalled

\* run_main_py has failed on both tries and run_mail_py was set aside.
C28_Witness ==
    /\ run_main_py = "failed"
    /\ main_try = retries + 1
    /\ run_mail_py = "upstream_failed"
    /\ mail_try = 0
    /\ mail_pc = "not started"

\* C29: when mail.py has sent the report in a DAG run, main.py has written
\* its export in that run and the report was built from that export.
C29_ReportFromExportOfSameRun ==
    send_status = "200" =>
       /\ export_written
       /\ detailed_orders = csv_export

\* Rows of unique_orders the loop has handled.
Handled == 1..fetch_idx

\* The row has a resort mapping, a product id and dates that parse.
Requestable(row) ==
    /\ row.ResortId \in DOMAIN resort_mapping
    /\ row.Arrival # Malformed
    /\ row.Departure # Malformed

\* C30: after any number of loop passes of process_orders_and_fetch_data,
\* success_count + error_count is the number of rows handled (each row
\* incremented exactly one of the two), processed_count is len(results),
\* success_count is the number of results with status 'success', which are
\* the results whose api_data is not None, and the rows without resort
\* mapping, product id or valid dates are counted in error_count and have no
\* result.
C30_CountersConsistent ==
    /\ success_count + error_count = fetch_idx
    /\ processed_count = Len(fetch_results)
    /\ success_count
         = Cardinality({n \in DOMAIN fetch_results :
                           fetch_results[n].status = "success"})
    /\ \A n \in DOMAIN fetch_results :
          fetch_results[n].status = "success" <=> fetch_results[n].api_data # PyNone
    /\ Len(fetch_results)
         <= Cardinality({i \in Handled : Requestable(unique_orders[i])})
    /\ error_count
         >= Cardinality({i \in Handled : ~Requestable(unique_orders[i])})
    /\ \A n \in DOMAIN fetch_results :
          \E i \in Handled :
             /\ Requestable(unique_orders[i])
             /\ fetch_results[n].resort_id = unique_orders[i].ResortId
             /\ fetch_results[n].check_in = Strftime(unique_orders[i].Arrival)

\* The loop has handled a row without resort mapping and a row whose request
\* succeeded.
C30_Witness ==
    /\ fetch_idx = 2
    /\ \E i \in Handled : unique_orders[i].ResortId \notin DOMAIN resort_mapping
    /\ success_count = 1
    /\ error_count = 1
    /\ processed_count = 1
    /\ Len(fetch_results) = 1

====
